---- MODULE Spec2Model ----
(***************************************************************************)
(* Model of build_inline_payload, the inline-finding consensus reconciler  *)
(* of multi-provider-code-review (tests/inline_consensus_test.py).         *)
(*                                                                         *)
(* Text is modelled as a sequence of one-character strings so that         *)
(* str.strip() and str.lower() are computed, not assumed.  A Python value  *)
(* is a record [t, s, n]: t is its type tag, s its text, n its number.     *)
(* A missing dictionary key and an explicit None are both NoneV, because   *)
(* every read in the code is f.get(k) followed by `or`, or (for `line`)    *)
(* int() inside a try block, which treats the two alike.                   *)
(***************************************************************************)
EXTENDS Integers, Sequences, FiniteSets, TLC

(* ------------------------------ text --------------------------------- *)

Uppers == <<"A","B","C","D","E","F","G","H","I","J","K","L","M",
            "N","O","P","Q","R","S","T","U","V","W","X","Y","Z">>

Lowers == <<"a","b","c","d","e","f","g","h","i","j","k","l","m",
            "n","o","p","q","r","s","t","u","v","w","x","y","z">>

Digits == <<"0","1","2","3","4","5","6","7","8","9">>

UpperSet == {Uppers[k] : k \in 1..Len(Uppers)}

LowerTable == [c \in UpperSet |-> Lowers[CHOOSE k \in 1..Len(Uppers) : Uppers[k] = c]]

LowerChar(c) == IF c \in UpperSet THEN LowerTable[c] ELSE c

Lower(s) == [k \in 1..Len(s) |-> LowerChar(s[k])]

IsSpace(c) == c = " "

RECURSIVE LStrip(_)
LStrip(s) == IF s # <<>> /\ IsSpace(Head(s)) THEN LStrip(Tail(s)) ELSE s

RECURSIVE RStrip(_)
RStrip(s) ==
    IF s # <<>> /\ IsSpace(s[Len(s)]) THEN RStrip(SubSeq(s, 1, Len(s) - 1)) ELSE s

Strip(s) == RStrip(LStrip(s))

IsDigit(c) == \E k \in 1..Len(Digits) : Digits[k] = c

DigitVal(c) == (CHOOSE k \in 1..Len(Digits) : Digits[k] = c) - 1

RECURSIVE DecValue(_)
DecValue(s) ==
    IF s = <<>> THEN 0 ELSE 10 * DecValue(SubSeq(s, 1, Len(s) - 1)) + DigitVal(s[Len(s)])

(* ----------------------------- values -------------------------------- *)

Txt(s) == [t |-> "str", s |-> s, n |-> 0]

IntV(n) == [t |-> "int", s |-> <<>>, n |-> n]

NoneV == [t |-> "none", s |-> <<>>, n |-> 0]

Truthy(v) ==
    CASE v.t = "str" -> v.s # <<>>
      [] v.t = "int" -> v.n # 0
      [] OTHER -> FALSE

PyOr(v, w) == IF Truthy(v) THEN v ELSE w

(* int(x) of lines 25-28: [ok, n]; ok = FALSE stands for the ValueError or *)
(* TypeError that the try block catches.                                   *)
PyInt(v) ==
    CASE v.t = "int" -> [ok |-> TRUE, n |-> v.n]
      [] v.t = "str" ->
            LET b == Strip(v.s)
                neg == b # <<>> /\ Head(b) = "-"
                d == IF neg THEN Tail(b) ELSE b
            IN  IF d # <<>> /\ \A k \in 1..Len(d) : IsDigit(d[k])
                THEN [ok |-> TRUE, n |-> IF neg THEN 0 - DecValue(d) ELSE DecValue(d)]
                ELSE [ok |-> FALSE, n |-> 0]
      [] OTHER -> [ok |-> FALSE, n |-> 0]

(* ---------------------------- constants ------------------------------ *)

Critical == <<"c","r","i","t","i","c","a","l">>

Major == <<"m","a","j","o","r">>

Minor == <<"m","i","n","o","r">>

Issue == <<"i","s","s","u","e">>

Synthesis == <<"s","y","n","t","h","e","s","i","s">>

Placeholder ==
    <<"N","o"," ","s","p","e","c","i","f","i","c"," ","s","u","g",
      "g","e","s","t","i","o","n"," ","p","r","o","v","i","d","e",
      "d",";"," ","p","l","e","a","s","e"," ","a","d","j","u","s",
      "t"," ","a","c","c","o","r","d","i","n","g","l","y",".">>

(* severity_order.get(severity, 0) *)
Rank(severity) ==
    CASE severity = Critical -> 3
      [] severity = Major -> 2
      [] severity = Minor -> 1
      [] OTHER -> 0

(* ---------------------------- findings ------------------------------- *)

Finding(file, line, severity, title, message, suggestion, provider) ==
    [dict |-> TRUE, file |-> file, line |-> line, severity |-> severity,
     title |-> title, message |-> message, suggestion |-> suggestion,
     provider |-> provider]

(* a list entry that is not a dictionary (a number, say): it has no .get *)
NotADict ==
    [dict |-> FALSE, file |-> NoneV, line |-> NoneV, severity |-> NoneV,
     title |-> NoneV, message |-> NoneV, suggestion |-> NoneV, provider |-> NoneV]

(* parsed JSON value of the "findings" member *)
JNone == [t |-> "none", items |-> <<>>, n |-> 0]

JList(xs) == [t |-> "list", items |-> xs, n |-> 0]

JInt(n) == [t |-> "int", items |-> <<>>, n |-> n]

JTruthy(j) ==
    CASE j.t = "list" -> j.items # <<>>
      [] j.t = "int" -> j.n # 0
      [] OTHER -> FALSE

(* ------------------------------ state -------------------------------- *)

VARIABLES
    provider_findings,  \* the caller's list; its dicts are shared with the callee
    struct_line,        \* [kind, findings]: the text blob, by what json.loads makes of it
    max_comments,       \* int(max_comments), line 11
    min_sev,            \* text
    min_agree,          \* int(min_agree) before the floor of line 12
    changed_files,      \* set of texts; {} also stands for None
    given_findings,     \* provider_findings as the caller passed it (never written)
    struct_findings,    \* local: result of load_struct_findings(), then tagged
    idx,                \* position of the loop of line 38 in all_findings
    by_key,             \* dict in insertion order: <<[key, providers, finding, max_sev]>>
    comments,           \* list built by lines 59-83
    comment_keys,       \* for each comment, the by_key key it was rendered from
    pc                  \* "load", "tag", "loop", "render", "truncate", "done", "raised"

vars ==
    <<provider_findings, struct_line, max_comments, min_sev, min_agree, changed_files,
      given_findings, struct_findings, idx, by_key, comments, comment_keys, pc>>

inputs == <<struct_line, max_comments, min_sev, min_agree, changed_files, given_findings>>

(* line 10: severity_order.get(min_sev.lower(), 1) *)
MinRank ==
    LET m == Lower(min_sev)
    IN  IF m \in {Critical, Major, Minor} THEN Rank(m) ELSE 1

(* line 12 without the floor of 1 *)
MinAgree_NoFloor == min_agree

(* line 12: max(1, int(min_agree)) *)
MinAgree == IF min_agree > 1 THEN min_agree ELSE 1

(* lines 14-21 *)
load_struct_findings ==
    CASE struct_line.kind = "empty" -> JList(<<>>)       \* not struct_line
      [] struct_line.kind = "invalid" -> JList(<<>>)     \* json.loads raises
      [] struct_line.kind = "nonobject" -> JList(<<>>)   \* data.get raises AttributeError
      [] OTHER ->
            IF JTruthy(struct_line.findings) THEN struct_line.findings ELSE JList(<<>>)

(* lines 33-34, one entry *)
TagProvider(f) == [f EXCEPT !.provider = PyOr(f.provider, Txt(Synthesis))]

(* line 36 *)
all_findings == provider_findings \o struct_findings.items

(* key_for without the .lower() of line 30 *)
key_for_CaseSensitive(f) ==
    LET file == PyOr(f.file, Txt(<<>>))
        line == PyInt(f.line)
        msg == PyOr(PyOr(f.title, f.message), Txt(<<>>))
    IN  IF ~f.dict \/ file.t # "str" \/ msg.t # "str"
        THEN [ok |-> FALSE, file |-> <<>>, line |-> 0, msg |-> <<>>]
        ELSE [ok |-> TRUE, file |-> Strip(file.s),
              line |-> IF line.ok THEN line.n ELSE 0,
              msg |-> Strip(msg.s)]

(* lines 23-30; ok = FALSE when an AttributeError escapes (f has no .get, or *)
(* a truthy non-text value has no .strip)                                  *)
key_for(f) ==
    LET file == PyOr(f.file, Txt(<<>>))
        line == PyInt(f.line)
        msg == PyOr(PyOr(f.title, f.message), Txt(<<>>))
    IN  IF ~f.dict \/ file.t # "str" \/ msg.t # "str"
        THEN [ok |-> FALSE, file |-> <<>>, line |-> 0, msg |-> <<>>]
        ELSE [ok |-> TRUE, file |-> Strip(file.s),
              line |-> IF line.ok THEN line.n ELSE 0,
              msg |-> Lower(Strip(msg.s))]

(* line 40, negated *)
ValidKey(k) == ~(k.file = <<>> \/ k.line <= 0 \/ k.msg = <<>>)

(* line 42 dropped: no scope filter *)
InScope_NoFilter(file) == TRUE

(* line 42, negated *)
InScope(file) == ~(changed_files # {} /\ file \notin changed_files)

(* line 44 *)
SeverityOf(f) == PyOr(f.severity, Txt(<<>>))

(* line 45 against the default rank 1 instead of min_rank *)
SeverityPasses_IgnoresMinSev(severity) == ~(Rank(severity) < 1)

(* line 45, negated *)
SeverityPasses(severity) == ~(Rank(severity) < MinRank)

(* lines 47-49 *)
LoopSuggestion(su) == IF Strip(su) = <<>> THEN Placeholder ELSE su

(* line 52 with >= for > : the last finding seen at the highest rank wins *)
Replaces_OnTie(severity, max_sev) == Rank(severity) >= Rank(max_sev)

(* line 52 *)
Replaces(severity, max_sev) == Rank(severity) > Rank(max_sev)

(* position of key in by_key, 0 when absent (the lookup of dict.setdefault) *)
FindEntry(bk, key) ==
    IF \E k \in 1..Len(bk) : bk[k].key = key
    THEN CHOOSE k \in 1..Len(bk) : bk[k].key = key
    ELSE 0

(* lines 51-57 for a finding that passed the filters: the new by_key *)
Accumulate(bk, key, ref, f, severity) ==
    LET at == FindEntry(bk, key)
        bk1 == IF at = 0
               THEN Append(bk, [key |-> key, providers |-> {}, finding |-> ref,
                                max_sev |-> severity])
               ELSE bk
        pos == IF at = 0 THEN Len(bk1) ELSE at
        e1 == bk1[pos]
        e2 == IF Replaces(severity, e1.max_sev)
              THEN [e1 EXCEPT !.max_sev = severity, !.finding = ref]
              ELSE e1
        e3 == IF Truthy(f.provider)
              THEN [e2 EXCEPT !.providers = @ \cup {f.provider}]
              ELSE e2
    IN  [bk1 EXCEPT ![pos] = e3]

(* what one pass of the loop body (lines 39-57) does with f *)
Outcome(f) ==
    LET k == key_for(f)
        sv == SeverityOf(f)
        su == PyOr(f.suggestion, Txt(<<>>))
    IN  IF ~k.ok THEN "raise"
        ELSE IF ~ValidKey(k) THEN "skip"
        ELSE IF ~InScope(k.file) THEN "skip"
        ELSE IF sv.t # "str" THEN "raise"
        ELSE IF ~SeverityPasses(Lower(sv.s)) THEN "skip"
        ELSE IF su.t # "str" THEN "raise"
        ELSE "keep"

(* ----------------------------- rendering ----------------------------- *)

(* line 61, negated *)
Agreed(entry) == ~(Cardinality(entry.providers) < MinAgree)

(* lines 69-71 without the substitution of lines 70-71 *)
RenderSuggestion_Raw(v) == PyOr(v, Txt(<<>>)).s

(* lines 69-71 *)
RenderSuggestion(v) ==
    LET su == PyOr(v, Txt(<<>>))
    IN  IF Strip(su.s) = <<>> THEN Placeholder ELSE su.s

(* lines 63-82 for one surviving entry.  The body is kept as the parts that *)
(* "\n".join(body_lines) glues: heading severity, heading text, the detail  *)
(* lines (none or one) and the text inside the suggestion fence.           *)
(* ok = FALSE when join meets a detail that is not text (TypeError).       *)
RenderEntry(entry, f) ==
    LET severity == IF entry.max_sev # <<>> THEN Txt(entry.max_sev)
                    ELSE PyOr(f.severity, Txt(Issue))
        heading == PyOr(PyOr(f.title, f.message), Txt(entry.key[3]))
        detail == PyOr(f.message, Txt(<<>>))
        shown == Truthy(detail) /\ detail # Txt(entry.key[3])
    IN  [ok |-> ~(shown /\ detail.t # "str"),
         comment |->
            [path |-> entry.key[1], line |-> entry.key[2], side |-> "RIGHT",
             body |-> [severity |-> severity, heading |-> heading,
                       detail |-> IF shown THEN <<detail>> ELSE <<>>,
                       suggestion |-> RenderSuggestion(f.suggestion)]]]

(* lines 59-82: the loop over by_key.items(), entries 1..n of bk *)
RECURSIVE RenderAll(_, _, _)
RenderAll(bk, fs, n) ==
    IF n = 0 THEN [ok |-> TRUE, comments |-> <<>>, keys |-> <<>>]
    ELSE LET before == RenderAll(bk, fs, n - 1)
             entry == bk[n]
             r == RenderEntry(entry, fs[entry.finding])
         IN  IF ~before.ok THEN before
             ELSE IF ~Agreed(entry) THEN before
             ELSE IF ~r.ok THEN [before EXCEPT !.ok = FALSE]
             ELSE [ok |-> TRUE, comments |-> Append(before.comments, r.comment),
                   keys |-> Append(before.keys, entry.key)]

(* line 83 as xs[:n + 1] *)
Truncate_OffByOne(xs, n) ==
    LET m == IF n + 1 >= 0 THEN (IF n + 1 < Len(xs) THEN n + 1 ELSE Len(xs))
             ELSE (IF Len(xs) + n + 1 > 0 THEN Len(xs) + n + 1 ELSE 0)
    IN  SubSeq(xs, 1, m)

(* line 83 keeping the last n entries (n >= 0) instead of the first n *)
Truncate_Last(xs, n) ==
    LET m == IF n >= 0 THEN (IF n < Len(xs) THEN n ELSE Len(xs))
             ELSE (IF Len(xs) + n > 0 THEN Len(xs) + n ELSE 0)
    IN  IF n >= 0 THEN SubSeq(xs, Len(xs) - m + 1, Len(xs)) ELSE SubSeq(xs, 1, m)

(* line 83: the slice xs[:n] *)
Truncate(xs, n) ==
    LET m == IF n >= 0 THEN (IF n < Len(xs) THEN n ELSE Len(xs))
             ELSE (IF Len(xs) + n > 0 THEN Len(xs) + n ELSE 0)
    IN  SubSeq(xs, 1, m)

(* ------------------------------ inputs ------------------------------- *)

MaxProviderFindings == 2

MaxStructFindings == 1

FileA == <<"a">>

FileB == <<"b">>

P1 == <<"p","1">>

P2 == <<"p","2">>

ProviderPool ==
    { Finding(Txt(FileA), IntV(1), Txt(Major), Txt(<<"B","u","g">>), Txt(<<"m">>),
              Txt(<<"f","i","x">>), Txt(P1)),
      \* the same key as the first: padded file, line as text, other letter case;
      \* no provider
      Finding(Txt(<<" ","a">>), Txt(<<"1">>), Txt(<<"M","A","J","O","R">>),
              Txt(<<"b","u","g"," ">>), Txt(<<"m">>), Txt(<<"f","2">>), Txt(<<>>)),
      \* the same key again, higher severity, blank suggestion
      Finding(Txt(FileA), IntV(1), Txt(Critical), Txt(<<"B","u","g">>), NoneV,
              Txt(<<>>), Txt(P2)),
      \* another key on another file: no title, whitespace suggestion
      Finding(Txt(FileB), IntV(2), Txt(Minor), NoneV, Txt(<<"S","o","l","o">>),
              Txt(<<" ">>), Txt(P1)),
      \* unranked severity
      Finding(Txt(FileA), IntV(1), Txt(<<"i","n","f","o">>), Txt(<<"B","u","g">>),
              Txt(<<"m">>), Txt(<<"f","i","x">>), Txt(P2)) }

StructPool ==
    { \* no provider, no suggestion
      Finding(Txt(FileA), IntV(1), Txt(Critical), Txt(<<"B","U","G">>), Txt(<<"m">>),
              NoneV, NoneV) }

(* records with a field of the wrong type, and an entry that is no record *)
MalformedPool ==
    { NotADict,
      Finding(IntV(7), IntV(1), Txt(Major), Txt(<<"B","u","g">>), Txt(<<"m">>),
              Txt(<<"f","i","x">>), Txt(P1)),
      Finding(Txt(FileA), IntV(1), Txt(Major), IntV(7), Txt(<<"m">>),
              Txt(<<"f","i","x">>), Txt(P1)),
      Finding(Txt(FileA), IntV(1), IntV(7), Txt(<<"B","u","g">>), Txt(<<"m">>),
              Txt(<<"f","i","x">>), Txt(P1)),
      Finding(Txt(FileA), IntV(1), Txt(Major), Txt(<<"B","u","g">>), Txt(<<"m">>),
              IntV(7), Txt(P1)),
      Finding(Txt(FileA), IntV(1), Txt(Major), Txt(<<"B","u","g">>), IntV(7),
              Txt(<<"f","i","x">>), Txt(P1)),
      \* a line that is not an integer: int() raises inside the try block
      Finding(Txt(FileA), Txt(<<"x">>), Txt(Major), Txt(<<"B","u","g">>), Txt(<<"m">>),
              Txt(<<"f","i","x">>), Txt(P1)) }

SeqsUpTo(S, n) == UNION { [1..k -> S] : k \in 0..n }

(* struct_line: empty text, text that is no JSON, or an object with a list *)
StructLines ==
    { [kind |-> k, findings |-> JNone] : k \in {"empty", "invalid"} }
    \cup { [kind |-> "object", findings |-> JList(xs)] :
             xs \in SeqsUpTo(StructPool, MaxStructFindings) }

(* struct_line that parses to something other than {"findings": [records]} *)
MalformedStructLines ==
    { [kind |-> k, findings |-> JNone] : k \in {"invalid", "nonobject", "object"} }
    \cup { [kind |-> "object", findings |-> JInt(5)] }
    \cup { [kind |-> "object", findings |-> JList(xs)] :
             xs \in SeqsUpTo(StructPool \cup MalformedPool, MaxStructFindings) \ {<<>>} }

MaxCommentsValues == {-1, 0, 1, 2}

MinSevValues == { Minor, <<"M","a","j","o","r">>, <<"l","o","w">> }

MinAgreeValues == {0, 2}

ChangedFilesValues == { {}, {FileA} }

Start ==
    /\ given_findings = provider_findings
    /\ struct_findings = JList(<<>>)
    /\ idx = 1
    /\ by_key = <<>>
    /\ comments = <<>>
    /\ comment_keys = <<>>
    /\ pc = "load"

Init ==
    /\ provider_findings \in SeqsUpTo(ProviderPool, MaxProviderFindings)
    /\ struct_line \in StructLines
    /\ max_comments \in MaxCommentsValues
    /\ min_sev \in MinSevValues
    /\ min_agree \in MinAgreeValues
    /\ changed_files \in ChangedFilesValues
    /\ Start

(* the same call with valid configuration scalars and data of any shape *)
InitMalformed ==
    /\ provider_findings \in
          SeqsUpTo(MalformedPool \cup StructPool, MaxProviderFindings)
    /\ struct_line \in StructLines \cup MalformedStructLines
    /\ max_comments = 2
    /\ min_sev = Minor
    /\ min_agree \in {1, 2}
    /\ changed_files = {}
    /\ Start

(* records at the edges of the validity step of lines 39-41: every field   *)
(* is text, an integer or absent, and every severity is ranked             *)
ValidityPool ==
    { \* whitespace-only title, message present
      Finding(Txt(FileA), IntV(1), Txt(Major), Txt(<<" ">>), Txt(<<"M","s","g">>),
              Txt(<<"f","i","x">>), Txt(P1)),
      \* no title, message present (padded, mixed case)
      Finding(Txt(FileA), IntV(1), Txt(Major), NoneV, Txt(<<"M","s","g"," ">>),
              Txt(<<"f","i","x">>), Txt(P2)),
      \* empty title, message present, line as text
      Finding(Txt(FileA), Txt(<<"1">>), Txt(Minor), Txt(<<>>), Txt(<<"m","s","g">>),
              Txt(<<"f","i","x">>), Txt(P1)),
      \* title present, no message
      Finding(Txt(FileB), IntV(2), Txt(Critical), Txt(<<"B","u","g">>), NoneV,
              Txt(<<"f","i","x">>), Txt(P2)),
      \* file blank after trimming
      Finding(Txt(<<" ">>), IntV(1), Txt(Major), Txt(<<"B","u","g">>), Txt(<<"m">>),
              Txt(<<"f","i","x">>), Txt(P1)),
      \* line 0
      Finding(Txt(FileB), IntV(0), Txt(Major), Txt(<<"B","u","g">>), Txt(<<"m">>),
              Txt(<<"f","i","x">>), Txt(P1)),
      \* negative line, as text
      Finding(Txt(FileB), Txt(<<"-","2">>), Txt(Major), Txt(<<"B","u","g">>),
              Txt(<<"m">>), Txt(<<"f","i","x">>), Txt(P1)),
      \* line that is not an integer
      Finding(Txt(FileB), Txt(<<"x">>), Txt(Major), Txt(<<"B","u","g">>), Txt(<<"m">>),
              Txt(<<"f","i","x">>), Txt(P1)),
      \* title and message both blank after trimming
      Finding(Txt(FileB), IntV(2), Txt(Major), Txt(<<>>), Txt(<<" ">>),
              Txt(<<"f","i","x">>), Txt(P1)) }

(* the call on records at the edges of the validity step; the scope filter *)
(* is off and the severity floor is the lowest, so that the validity step  *)
(* alone decides what is accumulated                                       *)
InitValidity ==
    /\ provider_findings \in SeqsUpTo(ValidityPool, MaxProviderFindings)
    /\ struct_line \in StructLines
    /\ max_comments \in {0, 2}
    /\ min_sev = Minor
    /\ min_agree \in {1, 2}
    /\ changed_files = {}
    /\ Start

(* ----------------------------- operations ---------------------------- *)

(* line 32 *)
Load ==
    /\ pc = "load"
    /\ struct_findings' = load_struct_findings
    /\ pc' = "tag"
    /\ UNCHANGED <<provider_findings, inputs, idx, by_key, comments, comment_keys>>

(* lines 33-37: iterating a number raises TypeError, an entry without .get *)
(* raises AttributeError                                                   *)
Tag ==
    /\ pc = "tag"
    /\ IF struct_findings.t # "list"
          \/ \E k \in 1..Len(struct_findings.items) : ~struct_findings.items[k].dict
       THEN /\ pc' = "raised"
            /\ UNCHANGED struct_findings
       ELSE /\ pc' = "loop"
            /\ struct_findings' =
                 JList([k \in 1..Len(struct_findings.items) |->
                          TagProvider(struct_findings.items[k])])
    /\ idx' = 1
    /\ by_key' = <<>>
    /\ UNCHANGED <<provider_findings, inputs, comments, comment_keys>>

(* line 55 through the shared reference: all_findings[ref]["suggestion"] = su *)
StoreSuggestion(ref, su) ==
    IF ref <= Len(provider_findings)
    THEN /\ provider_findings' = [provider_findings EXCEPT ![ref].suggestion = Txt(su)]
         /\ UNCHANGED struct_findings
    ELSE /\ struct_findings' =
              [struct_findings EXCEPT
                 !.items[ref - Len(provider_findings)].suggestion = Txt(su)]
         /\ UNCHANGED provider_findings

(* lines 38-57: one pass of the loop body *)
Process ==
    /\ pc = "loop"
    /\ idx <= Len(all_findings)
    /\ LET f == all_findings[idx]
           out == Outcome(f)
           k == key_for(f)
           key == <<k.file, k.line, k.msg>>
           severity == Lower(SeverityOf(f).s)
           at == FindEntry(by_key, key)
       IN  CASE out = "raise" ->
                  /\ pc' = "raised"
                  /\ UNCHANGED <<provider_findings, struct_findings, idx, by_key>>
             [] out = "skip" ->
                  /\ idx' = idx + 1
                  /\ UNCHANGED <<provider_findings, struct_findings, by_key, pc>>
             [] OTHER ->
                  /\ by_key' = Accumulate(by_key, key, idx, f, severity)
                  /\ IF at # 0 /\ Replaces(severity, by_key[at].max_sev)
                     THEN StoreSuggestion(idx, LoopSuggestion(PyOr(f.suggestion, Txt(<<>>)).s))
                     ELSE UNCHANGED <<provider_findings, struct_findings>>
                  /\ idx' = idx + 1
                  /\ UNCHANGED pc
    /\ UNCHANGED <<inputs, comments, comment_keys>>

(* lines 59-82 *)
Render ==
    /\ pc = "loop"
    /\ idx > Len(all_findings)
    /\ LET r == RenderAll(by_key, all_findings, Len(by_key))
       IN  IF r.ok
           THEN /\ comments' = r.comments
                /\ comment_keys' = r.keys
                /\ pc' = "truncate"
           ELSE /\ pc' = "raised"
                /\ UNCHANGED <<comments, comment_keys>>
    /\ UNCHANGED <<provider_findings, inputs, struct_findings, idx, by_key>>

(* lines 83-84 *)
Return ==
    /\ pc = "truncate"
    /\ comments' = Truncate(comments, max_comments)
    /\ comment_keys' = Truncate(comment_keys, max_comments)
    /\ pc' = "done"
    /\ UNCHANGED <<provider_findings, inputs, struct_findings, idx, by_key>>

Next == Load \/ Tag \/ Process \/ Render \/ Return

Spec == Init /\ [][Next]_vars

SpecMalformed == InitMalformed /\ [][Next]_vars

SpecValidity == InitValidity /\ [][Next]_vars

(* ------------------- vocabulary of the properties -------------------- *)

Returned == pc = "done"

(* the dedup identity of a finding as the specification words it: trimmed  *)
(* file, line, trimmed lower-cased title, or message when there is no title *)
FindingKey(f) ==
    LET n == PyInt(f.line)
    IN  <<Strip(PyOr(f.file, Txt(<<>>)).s),
          IF n.ok THEN n.n ELSE 0,
          Lower(Strip(PyOr(PyOr(f.title, f.message), Txt(<<>>)).s))>>

SeverityRank(f) == Rank(Lower(PyOr(f.severity, Txt(<<>>)).s))

Blank(v) == ~Truthy(v) \/ Strip(v.s) = <<>>

(* the working list as the caller supplied it: provider findings first,    *)
(* then the findings of the structured block, tagged                       *)
StructItems ==
    IF struct_line.kind = "object" /\ struct_line.findings.t = "list"
    THEN struct_line.findings.items
    ELSE <<>>

WorkingList == given_findings \o [k \in 1..Len(StructItems) |-> TagProvider(StructItems[k])]

(* per position of the working list: the finding as given, its key, its    *)
(* rank, and whether it passed the validity, scope and severity filters    *)
RECURSIVE FactsOf(_)
FactsOf(fs) ==
    IF fs = <<>> THEN <<>>
    ELSE <<[finding |-> Head(fs), key |-> FindingKey(Head(fs)),
            rank |-> SeverityRank(Head(fs)), kept |-> Outcome(Head(fs)) = "keep"]>>
         \o FactsOf(Tail(fs))

Facts == FactsOf(WorkingList)

(* positions among the first n whose finding was accumulated under key *)
Accumulated(w, key, n) == { k \in 1..n : w[k].kept /\ w[k].key = key }

Backers(w, key, n) ==
    { w[k].finding.provider :
        k \in { j \in Accumulated(w, key, n) : Truthy(w[j].finding.provider) } }

AgreementFloor == IF min_agree > 1 THEN min_agree ELSE 1

(* the by_key entry a comment was rendered from *)
EntryOf(c) == by_key[FindEntry(by_key, comment_keys[c])]

(* C1: every emitted comment's key is backed by at least max(1,            *)
(* min_agreement) distinct non-empty providers among the findings          *)
(* accumulated under it; and when exactly two keys were accumulated, one   *)
(* backed by two providers and one by a single provider, min_agreement = 2 *)
(* and a cap of at least one give exactly one comment, for the shared key. *)
C1_AgreementFloor ==
    Returned =>
        \A w \in {Facts} :
        LET n == Len(w)
            keys == { w[k].key : k \in { j \in 1..n : w[j].kept } }
        IN  /\ \A c \in 1..Len(comments) :
                  Cardinality(Backers(w, comment_keys[c], n)) >= AgreementFloor
            /\ (min_agree = 2 /\ max_comments >= 1 /\ Cardinality(keys) = 2) =>
                  \A shared \in keys :
                      ( /\ Cardinality(Backers(w, shared, n)) = 2
                        /\ \A solo \in keys \ {shared} :
                              Cardinality(Backers(w, solo, n)) = 1 )
                      => comment_keys = <<shared>>

C1_Witness ==
    /\ Returned
    /\ min_agree = 2
    /\ Len(comments) = 1
    /\ Len(by_key) = 2
    /\ Cardinality(Accumulated(Facts, comment_keys[1], Len(Facts))) = 2
    /\ \E e \in 1..Len(by_key) : Cardinality(by_key[e].providers) = 1

(* C2 as stated: the number of comments returned never exceeds             *)
(* max_comments, whatever integer it is.                                   *)
C2_CapRespectedAnyInteger == Returned => Len(comments) <= max_comments

(* C2 amended: for max_comments >= 0 the number of comments returned never *)
(* exceeds max_comments; for a negative max_comments the slice drops that  *)
(* many comments from the end of the list instead.                         *)
C2_CapRespected ==
    Returned =>
        LET agreed == Cardinality({ e \in 1..Len(by_key) : Agreed(by_key[e]) })
        IN  IF max_comments >= 0
            THEN Len(comments) <= max_comments
            ELSE Len(comments) = (IF agreed + max_comments > 0
                                  THEN agreed + max_comments ELSE 0)

C2_Witness ==
    /\ Returned
    /\ max_comments = 1
    /\ Cardinality({ e \in 1..Len(by_key) : Agreed(by_key[e]) }) = 2
    /\ Len(comments) = 1

(* C3: no two comments of the output come from the same key (file, line,   *)
(* trimmed lower-cased title or message): the representatives of any two   *)
(* comments differ in that key, and each comment carries the file and line *)
(* of its own key.                                                         *)
C3_Dedup ==
    Returned =>
        \A w \in {Facts} :
        \A keyOf \in {[c \in 1..Len(comments) |-> w[EntryOf(c).finding].key]} :
            /\ \A c \in 1..Len(comments) :
                  /\ comments[c].path = keyOf[c][1]
                  /\ comments[c].line = keyOf[c][2]
                  /\ comment_keys[c] = keyOf[c]
            /\ \A c, d \in 1..Len(comments) : c # d => keyOf[c] # keyOf[d]

C3_Witness ==
    /\ Returned
    /\ Len(comments) >= 1
    /\ \E k1, k2 \in Accumulated(Facts, comment_keys[1], Len(Facts)) :
          /\ k1 <= Len(given_findings)
          /\ k2 > Len(given_findings)
          /\ WorkingList[k1].title # WorkingList[k2].title

(* C4: on return the representative of every entry, and so of every       *)
(* emitted comment, has a severity rank >= rank(min_severity), and the     *)
(* providers of an entry all come from findings of that key whose rank is  *)
(* >= rank(min_severity): a finding below the floor is no representative   *)
(* and adds no provider.                                                   *)
C4_SeverityFloor ==
    Returned =>
    \A floor \in {Rank(Lower(min_sev))} :
    \A w \in {Facts} :
        /\ \A e \in 1..Len(by_key) :
              /\ w[by_key[e].finding].rank >= floor
              /\ by_key[e].providers \subseteq
                    { w[k].finding.provider :
                        k \in { j \in 1..Len(w) :
                                  w[j].key = by_key[e].key /\ w[j].rank >= floor } }
        /\ \A c \in 1..Len(comments) : w[EntryOf(c).finding].rank >= floor

C4_Witness ==
    /\ Returned
    /\ Len(comments) >= 1
    /\ Rank(Lower(min_sev)) = 2
    /\ \E k \in 1..Len(WorkingList) :
          /\ FindingKey(WorkingList[k]) = comment_keys[1]
          /\ SeverityRank(WorkingList[k]) < 2
          /\ Truthy(WorkingList[k].provider)
          /\ WorkingList[k].provider \notin EntryOf(1).providers

(* C5: on return, with a non-empty changed_files every comment's path is a *)
(* member of it and every provider of an entry comes from a finding on a   *)
(* member file; with an empty changed_files every finding with a valid key *)
(* and a passing severity is accumulated, whatever its file.               *)
C5_ScopeFilter ==
    Returned =>
    \A w \in {Facts} :
        /\ changed_files # {} =>
              /\ \A c \in 1..Len(comments) : comments[c].path \in changed_files
              /\ \A e \in 1..Len(by_key) :
                    /\ by_key[e].key[1] \in changed_files
                    /\ by_key[e].providers \subseteq
                          { w[k].finding.provider :
                              k \in { j \in 1..Len(w) : w[j].key[1] \in changed_files } }
        /\ changed_files = {} =>
              \A k \in 1..Len(w) :
                  ( /\ w[k].key[1] # <<>> /\ w[k].key[2] > 0 /\ w[k].key[3] # <<>>
                    /\ w[k].rank >= MinRank )
                  => /\ FindEntry(by_key, w[k].key) # 0
                     /\ Truthy(w[k].finding.provider) =>
                            w[k].finding.provider
                                \in by_key[FindEntry(by_key, w[k].key)].providers

C5_Witness ==
    /\ Returned
    /\ changed_files # {}
    /\ Len(comments) >= 1
    /\ \E k \in 1..Len(WorkingList) :
          LET key == FindingKey(WorkingList[k])
          IN  /\ key[1] # <<>> /\ key[1] \notin changed_files
              /\ key[2] > 0 /\ key[3] # <<>>
              /\ SeverityRank(WorkingList[k]) >= MinRank

(* C6: no data input makes build_inline_payload raise: whatever the        *)
(* struct_line and the finding records are, the call returns.              *)
C6_NeverRaises == pc # "raised"

(* C7: the text inside the suggestion fence of every comment is the        *)
(* suggestion the representative finding was given with when that is not   *)
(* blank, and the fixed placeholder when it is missing, empty or           *)
(* whitespace, whether the representative was the first finding stored     *)
(* for the key or replaced an earlier one.                                 *)
C7_PlaceholderSubstitution ==
    Returned =>
        LET wl == WorkingList
        IN  \A c \in 1..Len(comments) :
                LET given == wl[EntryOf(c).finding].suggestion
                IN  comments[c].body.suggestion =
                        (IF Blank(given) THEN Placeholder ELSE given.s)

C7_Witness ==
    /\ Returned
    /\ \E c \in 1..Len(comments) :
          /\ Blank(WorkingList[EntryOf(c).finding].suggestion)
          /\ \E k \in Accumulated(Facts, comment_keys[c], Len(Facts)) :
                k < EntryOf(c).finding
          /\ comments[c].body.suggestion = Placeholder

(* C8: after the call every record of the caller's provider_findings has   *)
(* the field values it had before the call.                                *)
C8_InputsUnchanged == Returned => provider_findings = given_findings

(* C9: once the working list is processed, the representative of every     *)
(* entry is the earliest finding, among those accumulated under the key,   *)
(* whose severity rank is the maximum under that key (a later finding of   *)
(* equal or lower rank never replaced it); max_sev is that finding's       *)
(* severity, and the severity in a comment's heading is the severity of    *)
(* its representative (severities are case-insensitive: shown lower-cased).*)
C9_FirstSeenAtHighestSeverity ==
    Returned =>
    \A w \in {Facts} :
        /\ \A e \in 1..Len(by_key) :
              \A under \in {Accumulated(w, by_key[e].key, Len(w))} :
              LET rep == by_key[e].finding
              IN  /\ rep \in under
                  /\ \A k \in under : w[k].rank <= w[rep].rank
                  /\ \A k \in under : w[k].rank = w[rep].rank => rep <= k
                  /\ by_key[e].max_sev = Lower(w[rep].finding.severity.s)
        /\ \A c \in 1..Len(comments) :
              comments[c].body.severity =
                  Txt(Lower(w[EntryOf(c).finding].finding.severity.s))

C9_Witness ==
    /\ Returned
    /\ \E c \in 1..Len(comments) :
          LET w == Facts
              under == Accumulated(w, comment_keys[c], Len(w))
              rep == EntryOf(c).finding
          IN  /\ \E k \in under : k < rep /\ w[k].rank < w[rep].rank
              /\ \E k \in under : k > rep /\ w[k].rank = w[rep].rank

(* the keys of the accumulated findings among the first n of the working   *)
(* list, each once, in the order of first occurrence                       *)
RECURSIVE KeysInOrder(_, _)
KeysInOrder(w, n) ==
    IF n = 0 THEN <<>>
    ELSE LET before == KeysInOrder(w, n - 1)
         IN  IF w[n].kept /\ Accumulated(w, w[n].key, n - 1) = {}
             THEN Append(before, w[n].key)
             ELSE before

FirstN(xs, n) == SubSeq(xs, 1, IF n < Len(xs) THEN n ELSE Len(xs))

(* C10: for max_comments >= 0 the output is the first max_comments of the  *)
(* keys that meet the agreement threshold, in the order in which the keys  *)
(* first occur in the working list (provider findings, then structured     *)
(* findings); keys below the threshold take no place under the cap.        *)
C10_InsertionOrderTruncation ==
    (Returned /\ max_comments >= 0) =>
        \A w \in {Facts} :
        LET AgreedKey(key) == Cardinality(Backers(w, key, Len(w))) >= AgreementFloor
        IN  /\ comment_keys = FirstN(SelectSeq(KeysInOrder(w, Len(w)), AgreedKey),
                                     max_comments)
            /\ Len(comments) = Len(comment_keys)
            /\ \A c \in 1..Len(comments) :
                  /\ comments[c].path = comment_keys[c][1]
                  /\ comments[c].line = comment_keys[c][2]

C10_Witness ==
    /\ Returned
    /\ max_comments = 1
    /\ Len(by_key) = 2
    /\ ~Agreed(by_key[1])
    /\ by_key[2].finding > Len(given_findings)
    /\ comment_keys = <<by_key[2].key>>

(* the validity step as the specification words it: file, line and the     *)
(* normalized message, which is the trimmed lower-cased title, or the      *)
(* message when the title is empty after trimming                          *)
DeclaredLine(f) ==
    LET n == PyInt(f.line)
    IN  IF n.ok THEN n.n ELSE 0

DeclaredMessage(f) ==
    IF ~Blank(f.title) THEN Lower(Strip(f.title.s))
    ELSE IF ~Blank(f.message) THEN Lower(Strip(f.message.s))
    ELSE <<>>

DeclaredKey(f) == <<Strip(PyOr(f.file, Txt(<<>>)).s), DeclaredLine(f), DeclaredMessage(f)>>

DeclaredDropped(f) ==
    \/ Blank(f.file)
    \/ DeclaredLine(f) <= 0
    \/ (Blank(f.title) /\ Blank(f.message))

(* C11: a finding is dropped by the validity step exactly when its file is *)
(* empty after trimming, its line is <= 0 or no integer, or its title and  *)
(* message are both empty after trimming; any other finding is kept, under *)
(* the key (file, line, trimmed lower-cased title, or message when the     *)
(* title is empty after trimming, a whitespace-only title included).  With *)
(* the scope filter off and every severity at or above the floor, on       *)
(* return: every finding that is to be kept has an entry under that key,   *)
(* holding its provider; and every entry, and every provider in it, comes  *)
(* from a finding that is to be kept under the entry's key.                *)
C11_ValidityStep ==
    (Returned /\ changed_files = {}) =>
        \A wl \in {WorkingList} :
        LET passes(k) == SeverityRank(wl[k]) >= MinRank
            kept == { k \in 1..Len(wl) : passes(k) /\ ~DeclaredDropped(wl[k]) }
        IN  /\ \A k \in kept :
                  LET at == FindEntry(by_key, DeclaredKey(wl[k]))
                  IN  /\ at # 0
                      /\ Truthy(wl[k].provider) => wl[k].provider \in by_key[at].providers
            /\ \A e \in 1..Len(by_key) :
                  LET under == { k \in kept : DeclaredKey(wl[k]) = by_key[e].key }
                  IN  /\ by_key[e].finding \in under
                      /\ by_key[e].providers \subseteq { wl[k].provider : k \in under }

(* the validity step as coded: the same, except that the message stands in *)
(* for the title only when the title is absent or the empty text; a        *)
(* whitespace-only title is trimmed to nothing and the finding is dropped, *)
(* whatever its message                                                    *)
C11_ValidityStepAsCoded ==
    (Returned /\ changed_files = {}) =>
        \A wl \in {WorkingList} :
        LET passes(k) == SeverityRank(wl[k]) >= MinRank
            dropped(f) == \/ Blank(f.file)
                          \/ DeclaredLine(f) <= 0
                          \/ Blank(PyOr(f.title, f.message))
            kept == { k \in 1..Len(wl) : passes(k) /\ ~dropped(wl[k]) }
        IN  /\ \A k \in kept :
                  LET at == FindEntry(by_key, FindingKey(wl[k]))
                  IN  /\ at # 0
                      /\ Truthy(wl[k].provider) => wl[k].provider \in by_key[at].providers
            /\ \A e \in 1..Len(by_key) :
                  LET under == { k \in kept : FindingKey(wl[k]) = by_key[e].key }
                  IN  /\ by_key[e].finding \in under
                      /\ by_key[e].providers \subseteq { wl[k].provider : k \in under }

====
